---- MODULE Spec2Model ----
(***************************************************************************)
(* Model of src/Info/req_uninstaller.py: the background runner             *)
(* (UninstallThread.run), the Qt queued-signal channel between the runner  *)
(* and the window, and the window's handlers (PackageUninstallerGUI).      *)
(*                                                                         *)
(* Strings the code inspects (the listing output, package names) are       *)
(* sequences of one-character strings, so that strip, split and lower are  *)
(* computed as Python computes them.  Texts the code only formats and      *)
(* passes on are records [fmt, args]: the f-string's template and the      *)
(* values interpolated into it.                                            *)
(***************************************************************************)
EXTENDS Integers, Sequences, FiniteSets, TLC

\* ------------------------------------------------------------------ bounds
\* Most lines a listing output has.
MaxLines == 2
\* Most runs started in one execution of the program.
MaxRuns == 2

\* ------------------------------------------------------- character strings
NL == "\n"
Whitespace == {" ", NL, "\t", "\r"}
UpperChars == <<"A","B","C","D","E","F","G","H","I","J","K","L","M",
                "N","O","P","Q","R","S","T","U","V","W","X","Y","Z">>
LowerChars == <<"a","b","c","d","e","f","g","h","i","j","k","l","m",
                "n","o","p","q","r","s","t","u","v","w","x","y","z">>

\* str.lower() on one character.
LowerChar(c) ==
    IF \E j \in DOMAIN UpperChars : UpperChars[j] = c
    THEN LowerChars[CHOOSE j \in DOMAIN UpperChars : UpperChars[j] = c]
    ELSE c

\* str.lower()
Lower(s) == [j \in DOMAIN s |-> LowerChar(s[j])]

\* str.strip(): drops the whitespace at both ends.
RECURSIVE StripLeft(_)
StripLeft(s) ==
    IF s # <<>> /\ Head(s) \in Whitespace THEN StripLeft(Tail(s)) ELSE s
RECURSIVE StripRight(_)
StripRight(s) ==
    IF s # <<>> /\ s[Len(s)] \in Whitespace
    THEN StripRight(SubSeq(s, 1, Len(s) - 1)) ELSE s
Strip(s) == StripRight(StripLeft(s))

\* What precedes the first newline of s, all of s if it has none.
RECURSIVE UpToNewline(_)
UpToNewline(s) ==
    IF s = <<>> \/ Head(s) = NL THEN <<>>
    ELSE <<Head(s)>> \o UpToNewline(Tail(s))

\* str.split('\n'): the pieces between newlines, empty pieces kept.
RECURSIVE SplitLines(_)
SplitLines(s) ==
    LET first == UpToNewline(s)
    IN  IF Len(first) = Len(s) THEN <<first>>
        ELSE <<first>> \o SplitLines(SubSeq(s, Len(first) + 2, Len(s)))

\* '==' in line
RECURSIVE HasSep(_)
HasSep(line) ==
    /\ Len(line) >= 2
    /\ \/ line[1] = "=" /\ line[2] = "="
       \/ HasSep(Tail(line))

\* line.split('==')[0]: what precedes the first '==', the line if it has none.
RECURSIVE BeforeSep(_)
BeforeSep(line) ==
    IF Len(line) < 2 THEN line
    ELSE IF line[1] = "=" /\ line[2] = "=" THEN <<>>
    ELSE <<line[1]>> \o BeforeSep(Tail(line))

\* The names the runner never uninstalls.
ProtectedSet == { <<"p","i","p">>,
                  <<"s","e","t","u","p","t","o","o","l","s">>,
                  <<"w","h","e","e","l">> }

\* pkg_name.lower() not in ['pip', 'setuptools', 'wheel']
\* Variant: the comparison without lower().
RemovableCaseSensitive(pkg_name) == pkg_name \notin ProtectedSet
Removable(pkg_name) == Lower(pkg_name) \notin ProtectedSet

\* if line and '==' in line
\* Variant: the test without '==' in line.
AnyLine(line) == line # <<>>
Qualifies(line) == line # <<>> /\ HasSep(line)

\* The loop that builds packages from the split lines.
RECURSIVE ParseLines(_)
ParseLines(lines) ==
    IF lines = <<>> THEN <<>>
    ELSE LET line == Head(lines)
             rest == ParseLines(Tail(lines))
         IN  IF Qualifies(line) /\ Removable(BeforeSep(line))
             THEN <<BeforeSep(line)>> \o rest
             ELSE rest

\* packages, from result.stdout
ParsePackages(stdout) == ParseLines(SplitLines(Strip(stdout)))

\* ---------------------------------------------------------------- texts
\* One interpolated value: an int, a str (a character sequence) or a list of
\* strs put through ', '.join.
IntArg(n) == [t |-> "int", n |-> n, s |-> <<>>, l |-> <<>>]
StrArg(s) == [t |-> "str", n |-> 0, s |-> s, l |-> <<>>]
JoinArg(l) == [t |-> "join", n |-> 0, s |-> <<>>, l |-> l]
\* A formatted text: the template, {} where a value goes, and the values.
Txt(fmt, args) == [fmt |-> fmt, args |-> args]
Dashes == "------------------------------------------------------------"

\* ------------------------------------------------------- inputs of a run
\* The lines pip may print, one per installed distribution.
LineChoices == { <<"f","o","o","=","=","1">>,
                 <<"b","a","r","=","=","2","=","=","x">>,
                 <<"b","a","z","=","3">>,
                 <<"P","i","p","=","=","2">>,
                 <<"W","H","E","E","L","=","=","0">>,
                 <<"s","e","t","u","p","t","o","o","l","s","=","=","6">> }
\* The listings of at most n lines, in any order; pip lists a distribution
\* once.
RECURSIVE Listings(_)
Listings(n) ==
    IF n = 0 THEN {<<>>}
    ELSE Listings(n - 1) \cup
         UNION { { <<line>> \o ls :
                     ls \in {l \in Listings(n - 1) :
                                \A j \in DOMAIN l : l[j] # line} } :
                 line \in LineChoices }
\* What pip writes for a listing: each line followed by a newline.
RECURSIVE Printed(_)
Printed(ls) ==
    IF ls = <<>> THEN <<>> ELSE Head(ls) \o <<NL>> \o Printed(Tail(ls))
Stdouts == {Printed(ls) : ls \in Listings(MaxLines)}
\* The outcomes of one uninstall command that returns.
UninstallResults == { [returncode |-> 0, stderr |-> <<>>],
                      [returncode |-> 1, stderr |-> <<>>],
                      [returncode |-> 1, stderr |-> <<"E">>] }
\* The non-zero exit codes of a listing command.
ListFailureCodes == {1}
\* str(e) of the exceptions subprocess.run raises.
FaultTexts == {<<"X">>}

\* ------------------------------------------------------------------ state
VARIABLES
    proc,             \* the process: where it is, its exit status
    threads,          \* the UninstallThread objects: position in run(), locals
    nruns,            \* how many UninstallThread objects were created
    uninstall_thread, \* self.uninstall_thread: 0 for None, else the thread
    queue,            \* signals posted to the window's thread, oldest first
    hist,             \* what the threads did since the last start_uninstall
    buttons,          \* enabled flags of the three buttons
    progress_bar,     \* visible, maximum, value
    output_text,      \* the log: the texts appended, oldest first
    dialogs,          \* open modal dialogs, innermost last
    fg,               \* what the window's thread is doing
    reply,            \* the local reply of confirm_uninstall
    fin_handled       \* the runs whose finished_signal the window handled

vars == <<proc, threads, nruns, uninstall_thread, queue, hist, buttons,
          progress_bar, output_text, dialogs, fg, reply, fin_handled>>
gui == <<proc, buttons, progress_bar, output_text, dialogs, fg, reply, fin_handled,
         nruns, uninstall_thread>>

Runs == 1..MaxRuns

\* ------------------------------------------------------- runner: signals
OutputEv(r, text) == [run |-> r, k |-> "output", text |-> text]
ProgressEv(r, current, total) ==
    [run |-> r, k |-> "progress", current |-> current, total |-> total]
FinishedEv(r, success, message) ==
    [run |-> r, k |-> "finished", success |-> success, message |-> message]
ListCmd(r) == [run |-> r, k |-> "list"]
UninstallCmd(r, pkg_name) == [run |-> r, k |-> "uninstall", pkg |-> pkg_name]
ReturnedEv(r, returncode, out) ==
    [run |-> r, k |-> "returned", returncode |-> returncode, out |-> out]
\* The listing command returns out; lines is what pip printed, line by line.
ListReturnedEv(r, returncode, out, lines) ==
    [run |-> r, k |-> "returned", returncode |-> returncode, out |-> out,
     lines |-> lines]
RaisedEv(r, text) == [run |-> r, k |-> "raised", err |-> text]
\* The local packages once the loop of lines 110-116 has built it.
ParsedEv(r, packages) == [run |-> r, k |-> "parsed", packages |-> packages]

IsSignal(e) == e.k \in {"output", "progress", "finished"}

\* Lines 96-97.
BeginEmits(r) ==
    << OutputEv(r, Txt("Fetching list of installed packages...\n", <<>>)),
       ProgressEv(r, 0, 0) >>

\* Lines 105-107.
\* Variant: an output line before the finished signal.
ListFailedEmitsTalkative(r) ==
    << OutputEv(r, Txt("Failed to get package list\n", <<>>)),
       FinishedEv(r, FALSE, Txt("Failed to get package list", <<>>)) >>
\* Variant: success reported on a failed listing.
ListFailedEmitsSuccess(r) ==
    << FinishedEv(r, TRUE, Txt("Failed to get package list", <<>>)) >>
ListFailedEmits(r) ==
    << FinishedEv(r, FALSE, Txt("Failed to get package list", <<>>)) >>

\* Lines 118-120.
\* Variant: failure reported on an empty list.
NoPackagesEmitsFailure(r) ==
    << FinishedEv(r, FALSE, Txt("No packages to uninstall", <<>>)) >>
NoPackagesEmits(r) ==
    << FinishedEv(r, TRUE, Txt("No packages to uninstall", <<>>)) >>

\* Lines 122-128.
FoundEmits(r, packages) ==
    << OutputEv(r, Txt("Found {} packages to uninstall\n",
                       <<IntArg(Len(packages))>>)),
       OutputEv(r, Txt("Packages: {}\n\n", <<JoinArg(packages)>>)),
       OutputEv(r, Txt("Uninstalling packages...\n", <<>>)),
       OutputEv(r, Txt(Dashes \o "\n", <<>>)) >>

\* Lines 133-134.
\* Variant: the progress counted from 0.
ItemStartEmitsFromZero(r, i, total, pkg_name) ==
    << ProgressEv(r, i - 1, total),
       OutputEv(r, Txt("[{}/{}] Uninstalling {}...",
                       <<IntArg(i), IntArg(total), StrArg(pkg_name)>>)) >>
ItemStartEmits(r, i, total, pkg_name) ==
    << ProgressEv(r, i, total),
       OutputEv(r, Txt("[{}/{}] Uninstalling {}...",
                       <<IntArg(i), IntArg(total), StrArg(pkg_name)>>)) >>

\* Lines 142-148, the signals ([check], [cross] and [warn] stand for the
\* code's non-ASCII marks).
ItemResultEmits(r, res) ==
    IF res.returncode = 0
    THEN << OutputEv(r, Txt(" [check] Success\n", <<>>)) >>
    ELSE << OutputEv(r, Txt(" [cross] Failed\n", <<>>)) >> \o
         ( IF res.stderr # <<>>
           THEN << OutputEv(r, Txt("   Error: {}\n", <<StrArg(res.stderr)>>)) >>
           ELSE <<>> )

\* Lines 142-146, failed_packages.
\* Variant: the append of line 146 left out.
FailedAfterForgetful(failed_packages, pkg_name, res) == failed_packages
FailedAfter(failed_packages, pkg_name, res) ==
    IF res.returncode = 0 THEN failed_packages
    ELSE Append(failed_packages, pkg_name)

\* Lines 156-157.
FailedLines(r, failed_packages) ==
    [j \in DOMAIN failed_packages |->
        OutputEv(r, Txt("  - {}\n", <<StrArg(failed_packages[j])>>))]

\* Lines 150-158.
\* Variant: the emit of line 158 left out.
SummaryEmitsSilentOnFailure(r, total_packages, failed_packages) ==
    << OutputEv(r, Txt("\n" \o Dashes \o "\n", <<>>)) >> \o
    ( IF failed_packages = <<>>
      THEN << FinishedEv(r, TRUE, Txt("Successfully uninstalled {} packages!",
                                      <<IntArg(total_packages)>>)) >>
      ELSE << OutputEv(r, Txt("\n[warn] Failed to uninstall {} packages:\n",
                              <<IntArg(Len(failed_packages))>>)) >> \o
           FailedLines(r, failed_packages) )
\* Variant: total_packages where len(failed_packages) stands.
SummaryEmitsCountsAll(r, total_packages, failed_packages) ==
    << OutputEv(r, Txt("\n" \o Dashes \o "\n", <<>>)) >> \o
    ( IF failed_packages = <<>>
      THEN << FinishedEv(r, TRUE, Txt("Successfully uninstalled {} packages!",
                                      <<IntArg(total_packages)>>)) >>
      ELSE << OutputEv(r, Txt("\n[warn] Failed to uninstall {} packages:\n",
                              <<IntArg(total_packages)>>)) >> \o
           FailedLines(r, failed_packages) \o
           << FinishedEv(r, FALSE, Txt("Failed to uninstall {} packages",
                                       <<IntArg(total_packages)>>)) >> )
SummaryEmits(r, total_packages, failed_packages) ==
    << OutputEv(r, Txt("\n" \o Dashes \o "\n", <<>>)) >> \o
    ( IF failed_packages = <<>>
      THEN << FinishedEv(r, TRUE, Txt("Successfully uninstalled {} packages!",
                                      <<IntArg(total_packages)>>)) >>
      ELSE << OutputEv(r, Txt("\n[warn] Failed to uninstall {} packages:\n",
                              <<IntArg(Len(failed_packages))>>)) >> \o
           FailedLines(r, failed_packages) \o
           << FinishedEv(r, FALSE, Txt("Failed to uninstall {} packages",
                                       <<IntArg(Len(failed_packages))>>)) >> )

\* Lines 160-161.
\* Variant: the fault left unreported.
FaultEmitsNothing(r, text) == <<>>
FaultEmits(r, text) ==
    << FinishedEv(r, FALSE, Txt("Error: {}", <<StrArg(text)>>)) >>

\* ------------------------------------------------------------ the process
\* The process while app.exec() runs the event loop: lines 331-334.
InEventLoop ==
    [pc |-> "main", status |-> -1, path |-> "none", waited |-> FALSE,
     window |-> TRUE, cut |-> FALSE]
\* The process runs its event loop; its threads run with it.
Alive == proc.pc = "main"

\* -------------------------------------------------------- runner: steps
\* An UninstallThread before start() and after its locals are dead.
NoLocals(pc) == [pc |-> pc, packages |-> <<>>, i |-> 0, failed_packages |-> <<>>]

\* The thread does `entries` in order: each is recorded, and each signal
\* among them is posted to the window's thread (a queued connection: the
\* emitter runs in the QThread, the receiver lives in the main thread).
\* Variant: the newest signals handled first.
PostedInFront(q, entries) == SelectSeq(entries, IsSignal) \o q
\* The event queue of the window's thread once the signals among entries
\* are posted to it: posted events are handled first in, first out.
Posted(q, entries) == q \o SelectSeq(entries, IsSignal)

Did(entries) ==
    /\ hist' = hist \o entries
    /\ queue' = Posted(queue, entries)

\* run() reaches the listing command: lines 94-103, up to the call.
ThreadBegin(r) ==
    /\ Alive
    /\ threads[r].pc = "started"
    /\ Did(BeginEmits(r) \o <<ListCmd(r)>>)
    /\ threads' = [threads EXCEPT ![r].pc = "listing"]
    /\ UNCHANGED gui

\* The listing command exits non-zero: lines 105-107.
ListFailed(r) ==
    /\ Alive
    /\ threads[r].pc = "listing"
    /\ \E rc \in ListFailureCodes :
           Did(<<ReturnedEv(r, rc, <<>>)>> \o ListFailedEmits(r))
    /\ threads' = [threads EXCEPT ![r] = NoLocals("emitted")]
    /\ UNCHANGED gui

\* The listing command exits 0: lines 109-140, up to the first uninstall
\* command or to the return of line 120.
ListSucceeded(r) ==
    /\ Alive
    /\ threads[r].pc = "listing"
    /\ \E ls \in Listings(MaxLines) :
         LET stdout == Printed(ls)
             packages == ParsePackages(stdout)
             total_packages == Len(packages)
         IN  IF packages = <<>>
             THEN /\ Did(<<ListReturnedEv(r, 0, stdout, ls),
                           ParsedEv(r, packages)>>
                         \o NoPackagesEmits(r))
                  /\ threads' = [threads EXCEPT ![r] = NoLocals("emitted")]
             ELSE /\ Did(<<ListReturnedEv(r, 0, stdout, ls),
                           ParsedEv(r, packages)>>
                         \o FoundEmits(r, packages)
                         \o ItemStartEmits(r, 1, total_packages, packages[1])
                         \o <<UninstallCmd(r, packages[1])>>)
                  /\ threads' = [threads EXCEPT ![r] =
                         [pc |-> "uninstalling", packages |-> packages,
                          i |-> 1, failed_packages |-> <<>>]]
    /\ UNCHANGED gui

\* The for loop of line 132 has a next item after item i, whatever the
\* command of item i returned: there is no break in lines 132-148.
\* Variant: the loop left at the first command that exits non-zero.
LoopStopsOnFailure(i, total_packages, res) ==
    i < total_packages /\ res.returncode = 0
LoopGoesOn(i, total_packages, res) == i < total_packages

\* The uninstall command of item i returns: lines 142-148, then either the
\* next iteration up to its command (132-140) or the summary (150-158).
UninstallReturned(r) ==
    /\ Alive
    /\ threads[r].pc = "uninstalling"
    /\ \E res \in UninstallResults :
         LET t == threads[r]
             total_packages == Len(t.packages)
             failed == FailedAfter(t.failed_packages, t.packages[t.i], res)
             ret == <<ReturnedEv(r, res.returncode, res.stderr)>>
                    \o ItemResultEmits(r, res)
         IN  IF LoopGoesOn(t.i, total_packages, res)
             THEN /\ Did(ret \o ItemStartEmits(r, t.i + 1, total_packages,
                                                t.packages[t.i + 1])
                         \o <<UninstallCmd(r, t.packages[t.i + 1])>>)
                  /\ threads' = [threads EXCEPT ![r].i = t.i + 1,
                                                ![r].failed_packages = failed]
             ELSE /\ Did(ret \o SummaryEmits(r, total_packages, failed))
                  /\ threads' = [threads EXCEPT ![r] = NoLocals("emitted")]
    /\ UNCHANGED gui

\* subprocess.run raises in the listing call: lines 160-161.
ListRaised(r) ==
    /\ Alive
    /\ threads[r].pc = "listing"
    /\ \E text \in FaultTexts :
           Did(<<RaisedEv(r, text)>> \o FaultEmits(r, text))
    /\ threads' = [threads EXCEPT ![r] = NoLocals("emitted")]
    /\ UNCHANGED gui

\* subprocess.run raises in the uninstall call of item i: lines 160-161.
UninstallRaised(r) ==
    /\ Alive
    /\ threads[r].pc = "uninstalling"
    /\ \E text \in FaultTexts :
           Did(<<RaisedEv(r, text)>> \o FaultEmits(r, text))
    /\ threads' = [threads EXCEPT ![r] = NoLocals("emitted")]
    /\ UNCHANGED gui

\* run() returns after its last emit.
ThreadReturn(r) ==
    /\ Alive
    /\ threads[r].pc = "emitted"
    /\ threads' = [threads EXCEPT ![r].pc = "returned"]
    /\ UNCHANGED <<queue, hist>>
    /\ UNCHANGED gui

\* ------------------------------------------------------------ the window
AllButtons(enabled) ==
    [uninstall_button |-> enabled, info_button |-> enabled,
     clear_button |-> enabled]

\* The window takes clicks: its thread is in the event loop and no modal
\* dialog is open.
Interactive == fg = "loop" /\ dialogs = <<>>

\* The texts pip list prints for show_packages.
ShowOutputs == {<<>>, <<"T">>}

\* show_packages up to its subprocess.run: lines 243-253.
ShowPackagesCall ==
    /\ Alive
    /\ Interactive
    /\ buttons.info_button
    /\ output_text' = <<Txt("Fetching installed packages...\n", <<>>)>>
    /\ fg' = "show_packages"
    /\ UNCHANGED <<proc, threads, nruns, uninstall_thread, queue, hist, buttons,
                   progress_bar, dialogs, fin_handled, reply>>

\* show_packages after its subprocess.run: lines 254-256.
ShowPackagesReturn ==
    /\ Alive
    /\ fg = "show_packages"
    /\ \/ \E out \in ShowOutputs :
             output_text' = Append(output_text, Txt("{}", <<StrArg(out)>>))
       \/ \E text \in FaultTexts :
             output_text' = Append(output_text, Txt("Error: {}", <<StrArg(text)>>))
    /\ fg' = "loop"
    /\ UNCHANGED <<proc, threads, nruns, uninstall_thread, queue, hist, buttons,
                   progress_bar, dialogs, fin_handled, reply>>

\* clear_button.clicked -> output_text.clear: line 210.
ClearLog ==
    /\ Alive
    /\ Interactive
    /\ buttons.clear_button
    /\ output_text' = <<>>
    /\ UNCHANGED <<proc, threads, nruns, uninstall_thread, queue, hist, buttons,
                   progress_bar, dialogs, fg, fin_handled, reply>>

\* confirm_uninstall opens its question: lines 258-271.
ConfirmUninstall ==
    /\ Alive
    /\ Interactive
    /\ buttons.uninstall_button
    /\ dialogs' = Append(dialogs, [kind |-> "question",
                                   message |-> Txt("Confirm Uninstall", <<>>)])
    /\ reply' = "none"
    /\ UNCHANGED <<proc, threads, nruns, uninstall_thread, queue, hist, buttons,
                   progress_bar, output_text, fg, fin_handled>>

\* start_uninstall, the controls: lines 279-281.
\* Variant: line 279 left out.
ButtonsAtStartKeepUninstall == [AllButtons(FALSE) EXCEPT !.uninstall_button = TRUE]
\* Variant: info_button left enabled.
ButtonsAtStartKeepInfo == [AllButtons(FALSE) EXCEPT !.info_button = TRUE]
ButtonsAtStart == AllButtons(FALSE)

\* The threads that have not returned from run().
LiveThreads == {r \in Runs : threads[r].pc \notin {"none", "returned"}}

\* What is left of the window and the threads once the process is gone.
Gone ==
    /\ threads' = [r \in Runs |-> NoLocals("none")]
    /\ nruns' = 0
    /\ uninstall_thread' = 0
    /\ queue' = <<>>
    /\ hist' = <<>>
    /\ buttons' = AllButtons(FALSE)
    /\ progress_bar' = [visible |-> FALSE, maximum |-> 0, value |-> 0]
    /\ output_text' = <<>>
    /\ dialogs' = <<>>
    /\ fg' = "loop"
    /\ reply' = "none"
    /\ fin_handled' = {}

\* Line 288 drops the last reference to the QThread of the run before
\* while that thread has not returned from run(): the QThread is destroyed
\* while it runs, and Qt aborts the process.
ThreadDestroyed ==
    /\ uninstall_thread \in LiveThreads
    /\ proc' = [pc |-> "exited", status |-> 134, path |-> "thread_destroyed",
                waited |-> FALSE, window |-> FALSE, cut |-> TRUE]
    /\ Gone

\* start_uninstall: lines 276-292.
start_uninstall ==
    /\ output_text' = <<>>
    /\ buttons' = ButtonsAtStart
    /\ progress_bar' = [visible |-> TRUE, maximum |-> 0, value |-> 0]
    /\ nruns' = nruns + 1
    /\ uninstall_thread' = nruns + 1
    /\ threads' = [threads EXCEPT ![nruns + 1] = NoLocals("started")]
    /\ hist' = <<>>
    /\ UNCHANGED <<proc, queue, fg, fin_handled>>

\* The reply that makes confirm_uninstall call start_uninstall: line 273.
\* Variant: the test of line 273 left out.
StartsOnAnyReply(answer) == TRUE
StartsOn(answer) == answer = "Yes"

\* The user answers the question: lines 273-274. Where the thread of the
\* run before is still in run(), start_uninstall either goes through, the
\* two threads running side by side, or ends at line 288 with the process
\* aborted, as the lifetime of the dropped QThread has it.
ConfirmReply ==
    /\ Alive
    /\ fg = "loop"
    /\ dialogs # <<>>
    /\ dialogs[Len(dialogs)].kind = "question"
    /\ \E answer \in {"Yes", "No"} :
         IF StartsOn(answer)
         THEN /\ nruns < MaxRuns
              /\ \/ /\ reply' = answer
                    /\ dialogs' = SubSeq(dialogs, 1, Len(dialogs) - 1)
                    /\ start_uninstall
                 \/ ThreadDestroyed
         ELSE /\ reply' = answer
              /\ dialogs' = SubSeq(dialogs, 1, Len(dialogs) - 1)
              /\ UNCHANGED <<proc, threads, nruns, uninstall_thread, queue,
                             hist, buttons, progress_bar, output_text, fg,
                             fin_handled>>

\* A queued output_signal reaches update_output: lines 294-299.
UpdateOutput ==
    /\ Alive
    /\ fg = "loop"
    /\ queue # <<>>
    /\ Head(queue).k = "output"
    /\ queue' = Tail(queue)
    /\ output_text' = Append(output_text, Head(queue).text)
    /\ UNCHANGED <<proc, threads, nruns, uninstall_thread, hist, buttons,
                   progress_bar, dialogs, fg, fin_handled, reply>>

\* A queued progress_signal reaches update_progress: lines 301-308.
UpdateProgress ==
    /\ Alive
    /\ fg = "loop"
    /\ queue # <<>>
    /\ Head(queue).k = "progress"
    /\ queue' = Tail(queue)
    /\ progress_bar' =
          IF Head(queue).total = 0
          THEN [progress_bar EXCEPT !.maximum = 0]
          ELSE [progress_bar EXCEPT !.maximum = Head(queue).total,
                                    !.value = Head(queue).current]
    /\ UNCHANGED <<proc, threads, nruns, uninstall_thread, hist, buttons,
                   output_text, dialogs, fg, fin_handled, reply>>

\* The progress bar as uninstall_finished leaves it: line 317.
\* Variant: the bar left as it is.
BarLeftShown(bar) == bar
BarAtFinish(bar) == [bar EXCEPT !.visible = FALSE]

\* A queued finished_signal reaches uninstall_finished: lines 310-322, up to
\* the message box.
UninstallFinished ==
    /\ Alive
    /\ fg = "loop"
    /\ queue # <<>>
    /\ Head(queue).k = "finished"
    /\ queue' = Tail(queue)
    /\ buttons' = AllButtons(TRUE)
    /\ progress_bar' = BarAtFinish(progress_bar)
    /\ dialogs' = Append(dialogs,
          [kind |-> IF Head(queue).success THEN "information" ELSE "warning",
           message |-> Head(queue).message])
    /\ fin_handled' = fin_handled \cup {Head(queue).run}
    /\ UNCHANGED <<proc, threads, nruns, uninstall_thread, hist, output_text, fg, reply>>

\* The user closes the message box of uninstall_finished: lines 320, 322.
MessageBoxClosed ==
    /\ Alive
    /\ fg = "loop"
    /\ dialogs # <<>>
    /\ dialogs[Len(dialogs)].kind \in {"information", "warning"}
    /\ dialogs' = SubSeq(dialogs, 1, Len(dialogs) - 1)
    /\ UNCHANGED <<proc, threads, nruns, uninstall_thread, queue, hist, buttons,
                   progress_bar, output_text, fg, fin_handled, reply>>

\* How the process ends when app.exec() returns 0 (line 334): sys.exit(0),
\* unless a QThread is destroyed while it runs, which aborts the process
\* or not, as the teardown order has it.
ExitStatuses == IF LiveThreads = {} THEN {0} ELSE {0, 134}

\* The user closes the window: no closeEvent is defined, so the last window
\* closes, app.exec() returns and main leaves through sys.exit (line 334),
\* whatever the threads are doing.
CloseWindow ==
    /\ Alive
    /\ Interactive
    /\ \E status \in ExitStatuses :
         proc' = [pc |-> "exited", status |-> status, path |-> "none",
                  waited |-> FALSE, window |-> FALSE,
                  cut |-> (LiveThreads # {})]
    /\ Gone

\* ------------------------------------------------------------ the system
\* The window as __init__ and init_ui leave it: lines 165-241.
Init ==
    /\ proc = InEventLoop
    /\ threads = [r \in Runs |-> NoLocals("none")]
    /\ nruns = 0
    /\ uninstall_thread = 0
    /\ queue = <<>>
    /\ hist = <<>>
    /\ buttons = AllButtons(TRUE)
    /\ progress_bar = [visible |-> FALSE, maximum |-> 100, value |-> -1]
    /\ output_text = <<>>
    /\ dialogs = <<>>
    /\ fg = "loop"
    /\ reply = "none"
    /\ fin_handled = {}

Next ==
    \/ \E r \in Runs : ThreadBegin(r)
    \/ \E r \in Runs : ListFailed(r)
    \/ \E r \in Runs : ListSucceeded(r)
    \/ \E r \in Runs : ListRaised(r)
    \/ \E r \in Runs : UninstallReturned(r)
    \/ \E r \in Runs : UninstallRaised(r)
    \/ \E r \in Runs : ThreadReturn(r)
    \/ ShowPackagesCall
    \/ ShowPackagesReturn
    \/ ClearLog
    \/ ConfirmUninstall
    \/ ConfirmReply
    \/ UpdateOutput
    \/ UpdateProgress
    \/ UninstallFinished
    \/ MessageBoxClosed
    \/ CloseWindow

Spec == Init /\ [][Next]_vars

\* ----------------------------------------------------------- the startup
\* What the user may type at "Install PyQt6? (y/n): ".
Answers == { <<"y">>, <<"Y">>, <<" ","y"," ">>, <<"n">>, <<>>,
             <<"y","e","s">> }
\* The exit codes of pip install PyQt6.
InstallCodes == {0, 1}

\* The process at the import of lines 6-10.
AtImport ==
    [pc |-> "import", status |-> -1, path |-> "none", waited |-> FALSE,
     window |-> FALSE, cut |-> FALSE]

\* The import succeeds and main() builds the application and the window:
\* lines 331-334.
MainStarts ==
    /\ proc.pc = "import"
    /\ proc' = InEventLoop
    /\ buttons' = AllButtons(TRUE)
    /\ progress_bar' = [visible |-> FALSE, maximum |-> 100, value |-> -1]
    /\ UNCHANGED <<threads, nruns, uninstall_thread, queue, hist, output_text,
                   dialogs, fg, reply, fin_handled>>

\* The import succeeds and main() raises before the event loop: lines
\* 335-343, up to the input.
MainRaises ==
    /\ proc.pc = "import"
    /\ proc' = [proc EXCEPT !.pc = "wait_key", !.path = "main_fault"]
    /\ UNCHANGED <<threads, nruns, uninstall_thread, queue, hist, buttons,
                   progress_bar, output_text, dialogs, fg, reply, fin_handled>>

\* The import raises ImportError: lines 11-16, up to the input.
ImportFails ==
    /\ proc.pc = "import"
    /\ proc' = [proc EXCEPT !.pc = "ask", !.path = "import_failed"]
    /\ UNCHANGED <<threads, nruns, uninstall_thread, queue, hist, buttons,
                   progress_bar, output_text, dialogs, fg, reply, fin_handled>>

\* choice == 'y', choice being input(...).strip().lower(): lines 16-18.
\* Variant: any answer that starts with y.
InstallsOnPrefix(answer) ==
    Lower(Strip(answer)) # <<>> /\ Head(Lower(Strip(answer))) = "y"
InstallsOn(answer) == Lower(Strip(answer)) = <<"y">>

\* The user answers the install question: lines 16-21 up to the call, or
\* lines 34-43 up to the input.
AnswerInstall ==
    /\ proc.pc = "ask"
    /\ \E answer \in Answers :
         proc' = IF InstallsOn(answer)
                 THEN [proc EXCEPT !.pc = "installing"]
                 ELSE [proc EXCEPT !.pc = "wait_key", !.path = "declined"]
    /\ UNCHANGED <<threads, nruns, uninstall_thread, queue, hist, buttons,
                   progress_bar, output_text, dialogs, fg, reply, fin_handled>>

\* Where the guard goes once pip install has returned: both branches of
\* lines 26-31 fall through to the input of line 43.
\* Variant: the program goes on to main() after a successful install.
AfterInstallRuns(returncode) == IF returncode = 0 THEN "import" ELSE "wait_key"
AfterInstall(returncode) == "wait_key"

\* pip install returns: lines 21-31, then 42-43 up to the input.
InstallReturns ==
    /\ proc.pc = "installing"
    /\ \E rc \in InstallCodes :
         proc' = [proc EXCEPT !.pc = AfterInstall(rc),
                              !.path = IF rc = 0 THEN "installed"
                                       ELSE "install_failed"]
    /\ UNCHANGED <<threads, nruns, uninstall_thread, queue, hist, buttons,
                   progress_bar, output_text, dialogs, fg, reply, fin_handled>>

\* subprocess.run raises in the install: lines 32-33, then 42-43.
InstallRaises ==
    /\ proc.pc = "installing"
    /\ proc' = [proc EXCEPT !.pc = "wait_key", !.path = "install_raised"]
    /\ UNCHANGED <<threads, nruns, uninstall_thread, queue, hist, buttons,
                   progress_bar, output_text, dialogs, fg, reply, fin_handled>>

\* The user presses Enter and the process exits: lines 43-44 and 343-344.
KeyPressed ==
    /\ proc.pc = "wait_key"
    /\ proc' = [proc EXCEPT !.pc = "exited", !.status = 1, !.waited = TRUE]
    /\ UNCHANGED <<threads, nruns, uninstall_thread, queue, hist, buttons,
                   progress_bar, output_text, dialogs, fg, reply, fin_handled>>

\* The process when the script is started: nothing is built yet.
StartupInit ==
    /\ proc = AtImport
    /\ threads = [r \in Runs |-> NoLocals("none")]
    /\ nruns = 0
    /\ uninstall_thread = 0
    /\ queue = <<>>
    /\ hist = <<>>
    /\ buttons = AllButtons(FALSE)
    /\ progress_bar = [visible |-> FALSE, maximum |-> 0, value |-> 0]
    /\ output_text = <<>>
    /\ dialogs = <<>>
    /\ fg = "loop"
    /\ reply = "none"
    /\ fin_handled = {}

StartupNext ==
    \/ MainStarts
    \/ MainRaises
    \/ ImportFails
    \/ AnswerInstall
    \/ InstallReturns
    \/ InstallRaises
    \/ KeyPressed
    \/ Next

\* The program from the start of the script.
StartupSpec == StartupInit /\ [][StartupNext]_vars

\* ------------------------------------------------- reading the history
\* What run r did, in order.
RunHist(r) == SelectSeq(hist, LAMBDA e : e.run = r)
\* The positions of the entries of one kind.
Idx(h, kind) == {j \in DOMAIN h : h[j].k = kind}
\* The position after a command holds its outcome.
ReturnedAt(h, j) == j + 1 <= Len(h) /\ h[j + 1].k = "returned"
\* The listing command of the run exited non-zero.
ListFailedIn(h) ==
    \E j \in Idx(h, "list") : ReturnedAt(h, j) /\ h[j + 1].returncode # 0
\* The listing command of the run exited 0.
ListSucceededIn(h) ==
    \E j \in Idx(h, "list") : ReturnedAt(h, j) /\ h[j + 1].returncode = 0
\* The output of the listing command that exited 0.
ListOutput(h) ==
    h[1 + CHOOSE j \in Idx(h, "list") : ReturnedAt(h, j)].out
\* The names the run kept from the listing.
Packages(h) == h[CHOOSE j \in Idx(h, "parsed") : TRUE].packages
\* The uninstall commands that exited non-zero, and those that exited 0.
FailedIdx(h) ==
    {j \in Idx(h, "uninstall") : ReturnedAt(h, j) /\ h[j + 1].returncode # 0}
SucceededIdx(h) ==
    {j \in Idx(h, "uninstall") : ReturnedAt(h, j) /\ h[j + 1].returncode = 0}
\* A fault was raised inside the run.
Faulted(h) == Idx(h, "raised") # {}
\* The run emitted finished_signal; the signal it emitted.
Completed(h) == Idx(h, "finished") # {}
CompletedEv(h) == h[CHOOSE j \in Idx(h, "finished") : TRUE]
\* The thread of run r is past its last emit.
Over(r) == threads[r].pc \in {"emitted", "returned"}
\* The runs whose history is kept: the one started last.
Shown == {r \in Runs : r = nruns}

\* C1: every run emits exactly one Completed event, whatever the listing
\* result, the uninstall results and the faults, and the run does nothing
\* after it: no OutputLine, no Progress, no command.
C1_ExactlyOneCompletedLast ==
    \A r \in Shown :
        LET h == RunHist(r)
        IN  /\ Cardinality(Idx(h, "finished")) <= 1
            /\ \A j \in Idx(h, "finished") : j = Len(h)
            /\ Over(r) <=> Completed(h)
\* A run that saw an item fail and then a fault has returned.
C1_Witness ==
    /\ nruns >= 1
    /\ threads[nruns].pc = "returned"
    /\ Faulted(RunHist(nruns))
    /\ FailedIdx(RunHist(nruns)) # {}

\* C2: no name handed to an uninstall command equals a protected name
\* when case is ignored.
SameLetter(c, d) ==
    \/ c = d
    \/ \E j \in DOMAIN UpperChars : {c, d} = {UpperChars[j], LowerChars[j]}
EqualIgnoringCase(a, b) ==
    /\ Len(a) = Len(b)
    /\ \A j \in DOMAIN a : SameLetter(a[j], b[j])
C2_NeverUninstallsProtected ==
    \A j \in Idx(hist, "uninstall") :
        \A p \in ProtectedSet : ~EqualIgnoringCase(hist[j].pkg, p)
\* The listing had a protected name in mixed case and a command was issued.
C2_Witness ==
    /\ Idx(hist, "uninstall") # {}
    /\ ListSucceededIn(hist)
    /\ \E j \in DOMAIN ListOutput(hist) : ListOutput(hist)[j] = "P"

\* C3: when the listing command exits non-zero the run is over, its
\* Completed event is (false, "Failed to get package list"), and it issued
\* no uninstall command.
C3_ListFailureEndsRun ==
    \A r \in Shown :
        LET h == RunHist(r)
        IN  ListFailedIn(h) =>
              /\ Over(r)
              /\ Completed(h)
              /\ ~CompletedEv(h).success
              /\ CompletedEv(h).message = Txt("Failed to get package list", <<>>)
              /\ Idx(h, "uninstall") = {}
C3_Witness ==
    /\ nruns >= 1
    /\ ListFailedIn(RunHist(nruns))
    /\ threads[nruns].pc = "returned"

\* C4: when the listing succeeds and nothing of it is left after the
\* filter, the run is over with Completed(true, "No packages to uninstall")
\* as the only thing it did after the listing: no uninstall command, no
\* failure recorded.
C4_EmptyListCompletes ==
    \A r \in Shown :
        LET h == RunHist(r)
        IN  (ListSucceededIn(h) /\ Packages(h) = <<>>) =>
              /\ Over(r)
              /\ Completed(h)
              /\ CompletedEv(h).success
              /\ CompletedEv(h).message = Txt("No packages to uninstall", <<>>)
              /\ Idx(h, "uninstall") = {}
              /\ threads[r].failed_packages = <<>>
              /\ \A j \in Idx(h, "parsed") : Idx(h, "finished") = {j + 1}
\* The listing was not empty, but every line of it was filtered out.
C4_Witness ==
    /\ nruns >= 1
    /\ ListSucceededIn(RunHist(nruns))
    /\ ListOutput(RunHist(nruns)) # <<>>
    /\ Packages(RunHist(nruns)) = <<>>
    /\ Completed(RunHist(nruns))

\* C5: in a run without fault whose listing yields at least one name, the
\* Completed event carries success exactly when no uninstall command
\* exited non-zero.
C5_SuccessIffNoneFailed ==
    \A r \in Shown :
        LET h == RunHist(r)
        IN  ( /\ Completed(h)
              /\ ~Faulted(h)
              /\ ListSucceededIn(h)
              /\ Len(Packages(h)) >= 1 ) =>
            (CompletedEv(h).success <=> FailedIdx(h) = {})
\* One item failed and one succeeded, and the run completed.
C5_Witness ==
    /\ nruns >= 1
    /\ Completed(RunHist(nruns))
    /\ ~Faulted(RunHist(nruns))
    /\ FailedIdx(RunHist(nruns)) # {}
    /\ SucceededIdx(RunHist(nruns)) # {}

\* The names whose uninstall command exited non-zero, in command order.
RECURSIVE FailedNames(_)
FailedNames(h) ==
    IF Len(h) < 2 THEN <<>>
    ELSE ( IF h[1].k = "uninstall" /\ h[2].k = "returned" /\ h[2].returncode # 0
           THEN <<h[1].pkg>> ELSE <<>> ) \o FailedNames(Tail(h))
\* The text has the name among the values interpolated into it.
Names(text, name) ==
    \E j \in DOMAIN text.args :
        \/ text.args[j].t = "str" /\ text.args[j].s = name
        \/ text.args[j].t = "join" /\
              \E m \in DOMAIN text.args[j].l : text.args[j].l[m] = name
\* The run completed without fault after at least one item failed.
SomeFailed(h) == Completed(h) /\ ~Faulted(h) /\ FailedIdx(h) # {}

C7_Original ==
    \A r \in Shown :
        LET h == RunHist(r)
        IN  (ListFailedIn(h) /\ Completed(h)) =>
              \E j \in Idx(h, "output") :
                  /\ \E c \in Idx(h, "list") : c + 1 < j
                  /\ \E f \in Idx(h, "finished") : j < f
\* C7 as amended: on list failure the run emits no OutputLine after the
\* listing command; Completed follows the command's return directly, and
\* the only OutputLine of the run is the "Fetching list of installed
\* packages..." line emitted before the command is issued.
C7_ListFailureOnlyCompleted ==
    \A r \in Shown :
        LET h == RunHist(r)
        IN  ListFailedIn(h) =>
              /\ Idx(h, "output") = {1}
              /\ h[1].text = Txt("Fetching list of installed packages...\n", <<>>)
              /\ \A c \in Idx(h, "list") :
                    1 < c /\ Idx(h, "finished") = {c + 2}
C7_Witness ==
    /\ nruns >= 1
    /\ ListFailedIn(RunHist(nruns))
    /\ Completed(RunHist(nruns))
    /\ nruns \in fin_handled

\* C8: a fault raised by the listing call or by the uninstall call of item
\* i is followed at once by Completed(false, "Error: " and the fault's
\* text); the run is then over without the fault leaving run(), and no
\* uninstall command follows the fault.
C8_FaultBecomesCompleted ==
    \A r \in Shown :
        LET h == RunHist(r)
        IN  \A j \in Idx(h, "raised") :
              /\ Idx(h, "raised") = {j}
              /\ Over(r)
              /\ Len(h) = j + 1
              /\ h[j + 1].k = "finished"
              /\ ~h[j + 1].success
              /\ h[j + 1].message = Txt("Error: {}", <<StrArg(h[j].err)>>)
              /\ \A m \in Idx(h, "uninstall") : m < j
\* The uninstall call of the first of two items raised; the thread returned.
C8_Witness ==
    /\ nruns >= 1
    /\ Faulted(RunHist(nruns))
    /\ Cardinality(Idx(RunHist(nruns), "uninstall")) = 1
    /\ Len(Packages(RunHist(nruns))) = 2
    /\ threads[nruns].pc = "returned"

\* The confirmation question is the open dialog.
QuestionOpen == dialogs # <<>> /\ dialogs[Len(dialogs)].kind = "question"
\* This step is the user answering Yes: start_uninstall goes through or
\* ends at line 288.
AnsweredYes ==
    /\ Len(dialogs') < Len(dialogs)
    /\ reply' = "Yes" \/ proc'.path = "thread_destroyed"

\* C9: from the click that opens the confirmation question to its being
\* declined, nothing changes: no thread is created, no command is issued,
\* the three controls are enabled, the progress bar is hidden and the log is
\* as it was; declining leaves the window idle.
C9_DeclineChangesNothing ==
    [][ (QuestionOpen /\ ~AnsweredYes) =>
          /\ nruns' = nruns
          /\ uninstall_thread' = uninstall_thread
          /\ \A r \in Runs : threads[r].pc = "none" => threads'[r].pc = "none"
          /\ hist' = hist
          /\ buttons = AllButtons(TRUE)
          /\ buttons' = buttons
          /\ ~progress_bar.visible
          /\ progress_bar' = progress_bar
          /\ output_text' = output_text
          /\ fg' = "loop"
          /\ Len(dialogs') < Len(dialogs) => (reply' = "No" /\ Interactive')
      ]_vars
\* The question was declined with the log of an earlier run on display.
C9_Witness ==
    /\ reply = "No"
    /\ Interactive
    /\ nruns >= 1
    /\ output_text # <<>>
    /\ buttons = AllButtons(TRUE)

\* A run was started and the window has not handled its Completed event.
Running == \E r \in 1..nruns : r \notin fin_handled
\* This step is a queued signal reaching its handler.
Handles == Len(queue') < Len(queue)

\* C10: from start_uninstall to the handling of that run's Completed event,
\* as long as the window is there, the three controls are disabled, and no
\* start_uninstall, show_packages or log clear happens; every signal the window handles is of the run
\* started last, whose Completed it has not handled, every earlier run's
\* being handled.
C10_NoRunWhileRunning ==
    /\ [](Running => buttons = AllButtons(FALSE))
    /\ [][ (Running /\ proc'.window) =>
             /\ nruns' = nruns
             /\ fg' = "loop"
             /\ \/ output_text' = output_text
                \/ /\ Len(output_text') = Len(output_text) + 1
                   /\ SubSeq(output_text', 1, Len(output_text)) = output_text
         ]_vars
    /\ [][ Handles =>
             /\ Head(queue).run = nruns
             /\ Head(queue).run \notin fin_handled
             /\ \A r \in 1..(nruns - 1) : r \in fin_handled
         ]_vars
\* The second run is under way, part of its signals handled, part queued.
C10_Witness ==
    /\ nruns = 2
    /\ fin_handled = {1}
    /\ queue # <<>>
    /\ output_text # <<>>

\* The lines pip printed for the listing command that exited 0.
ListLines(h) ==
    h[1 + CHOOSE j \in Idx(h, "list") : ReturnedAt(h, j)].lines
\* The positions at which '==' starts in a line.
SepStarts(line) ==
    {j \in 1..(Len(line) - 1) : line[j] = "=" /\ line[j + 1] = "="}
\* The part of a line before its first '=='.
NameOf(line) ==
    SubSeq(line, 1,
           (CHOOSE j \in SepStarts(line) : \A q \in SepStarts(line) : j <= q) - 1)
\* The lines that have '==' and whose name, lower-cased, is not protected.
Kept(lines) ==
    {j \in DOMAIN lines :
        SepStarts(lines[j]) # {} /\ Lower(NameOf(lines[j])) \notin ProtectedSet}
\* The uninstall commands of a run, in order.
UninstallCmds(h) == SelectSeq(h, LAMBDA e : e.k = "uninstall")

\* C11: the names handed to removal are, in listing order, the parts
\* before the first '==' of the listing lines that have '==' and whose
\* part, lower-cased, is not protected; a line without '==' gives nothing;
\* the uninstall commands take their names from that list, in order.
C11_IdentifiersFromListing ==
    \A r \in Shown :
        LET h == RunHist(r)
        IN  \A p \in Idx(h, "parsed") :
              LET packages == h[p].packages
                  lines == ListLines(h)
                  kept == Kept(lines)
                  cmds == UninstallCmds(h)
              IN  /\ Len(packages) = Cardinality(kept)
                  /\ \A j \in kept :
                        packages[Cardinality({q \in kept : q <= j})]
                          = NameOf(lines[j])
                  /\ Len(cmds) <= Len(packages)
                  /\ \A m \in DOMAIN cmds : cmds[m].pkg = packages[m]
\* The listing had a line without '==' and one with two; a command went out.
C11_Witness ==
    /\ nruns >= 1
    /\ Idx(hist, "uninstall") # {}
    /\ \E j \in DOMAIN ListLines(hist) : SepStarts(ListLines(hist)[j]) = {}
    /\ \E j \in DOMAIN ListLines(hist) :
          Cardinality(SepStarts(ListLines(hist)[j])) = 2

\* The run of the script found PyQt6 missing.
ImportFailed ==
    proc.path \in {"import_failed", "declined", "installed", "install_failed",
                   "install_raised"}

\* C12: when the import of PyQt6 fails, then whatever the answer and
\* whatever becomes of the automatic install, its success included, the
\* process goes nowhere but to the wait for a key and from there to exit
\* status 1; the window and the threads are never built.
C12_ImportFailureExitsOne ==
    ImportFailed =>
      /\ proc.pc \in {"ask", "installing", "wait_key", "exited"}
      /\ proc.pc = "exited" => (proc.status = 1 /\ proc.waited)
      /\ proc.path \in {"declined", "installed", "install_failed",
                        "install_raised"}
           => proc.pc \in {"wait_key", "exited"}
      /\ ~proc.window
      /\ nruns = 0
      /\ uninstall_thread = 0
      /\ \A r \in Runs : threads[r].pc = "none"
\* The automatic install succeeded and the process has exited.
C12_Witness ==
    /\ proc.pc = "exited"
    /\ proc.path = "installed"

\* The uninstall commands of h before position j.
Before(h, j) == {q \in Idx(h, "uninstall") : q < j}

\* C13: a run with n >= 1 names issues its uninstall commands one per
\* name in listing order, command m for the m-th name; a command is issued
\* only once every earlier one has returned, whatever its exit code; there
\* are never more than n, and a run that completes without a fault has
\* issued exactly n, the exit codes of the earlier ones notwithstanding.
C13_OneCommandPerNameInOrder ==
    \A r \in Shown :
      LET h == RunHist(r) IN
      \A p \in Idx(h, "parsed") :
        LET packages == h[p].packages
            n == Len(packages)
        IN  /\ Cardinality(Idx(h, "uninstall")) <= n
            /\ \A j \in Idx(h, "uninstall") :
                 /\ j > p
                 /\ h[j].pkg = packages[Cardinality(Before(h, j)) + 1]
                 /\ \A q \in Before(h, j) : ReturnedAt(h, q)
            /\ (n >= 1 /\ Completed(h) /\ ~Faulted(h))
                 => Cardinality(Idx(h, "uninstall")) = n
\* A run of two names whose first command exited non-zero has issued the
\* second and completed.
C13_Witness ==
    /\ nruns >= 1
    /\ Completed(hist)
    /\ ~Faulted(hist)
    /\ Cardinality(Idx(hist, "uninstall")) = 2
    /\ \E j \in FailedIdx(hist) : Before(hist, j) = {}

\* C14: the first Progress of a run is (0, 0) and comes before the listing
\* command; the one after the m-th is (m, n), n the number of names kept;
\* it comes after every earlier uninstall command has returned, there
\* being m - 1 of them, and before the command of item m, which is the
\* next command of the run; a run that completes without a fault has
\* emitted n + 1 of them.
C14_ProgressOrder ==
    \A r \in Shown :
      LET h == RunHist(r)
          prog == Idx(h, "progress")
          cmds == Idx(h, "uninstall")
          lists == Idx(h, "list")
      IN
      /\ \A j \in prog :
           LET m == Cardinality({q \in prog : q < j})
               before == {q \in cmds : q < j}
           IN
           IF m = 0
           THEN /\ h[j].current = 0
                /\ h[j].total = 0
                /\ \A c \in lists \cup cmds : j < c
           ELSE /\ Idx(h, "parsed") # {}
                /\ h[j].current = m
                /\ h[j].total = Len(Packages(h))
                /\ m <= h[j].total
                /\ Cardinality(before) = m - 1
                /\ \A q \in before : ReturnedAt(h, q) /\ q + 1 < j
                /\ \E c \in cmds :
                     /\ j < c
                     /\ h[c].pkg = Packages(h)[m]
                     /\ \A q \in (j + 1)..(c - 1) : h[q].k = "output"
      /\ \A c \in lists : \E q \in prog : q < c
      /\ \A c \in cmds :
           Cardinality({q \in prog : q < c})
             = Cardinality({q \in cmds : q < c}) + 2
      /\ (Completed(h) /\ ~Faulted(h) /\ Idx(h, "parsed") # {})
           => Cardinality(prog) = Len(Packages(h)) + 1
\* A run of two names has emitted its three Progress events and completed.
C14_Witness ==
    /\ nruns >= 1
    /\ Completed(hist)
    /\ ~Faulted(hist)
    /\ Cardinality(Idx(hist, "progress")) = 3

\* The window is there with its three controls enabled and no run pending.
Idle == proc.window /\ buttons = AllButtons(TRUE) /\ ~Running

\* C15: while a run is pending, every step either leaves it pending or is
\* the handling of its Completed event, which leaves the window with its
\* three controls enabled: no step, and so no user action, cuts the run.
C15_Original == [][Running => (Running' \/ Idle')]_vars

\* The signals of the run started last, in the order it emitted them; those
\* the window has handled; the texts of the output signals among es.
Emitted == SelectSeq(hist, IsSignal)
Handled == SubSeq(Emitted, 1, Len(Emitted) - Len(queue))
Texts(es) ==
    LET outs == SelectSeq(es, LAMBDA e : e.k = "output")
    IN  [j \in DOMAIN outs |-> outs[j].text]
\* The progress bar after the progress signals among es, from the reset of
\* start_uninstall.
BarAfter(es) ==
    LET ps == SelectSeq(es, LAMBDA e : e.k = "progress")
        last == ps[Len(ps)]
    IN  IF ps = <<>> \/ last.total = 0
        THEN [visible |-> TRUE, maximum |-> 0, value |-> 0]
        ELSE [visible |-> TRUE, maximum |-> last.total, value |-> last.current]

\* C16: while a run is pending the signals waiting for the window are the
\* last ones the run emitted, in emission order, so that the window has
\* handled a prefix of what was emitted, the three kinds together; the log
\* holds the texts of the output signals of that prefix and nothing else,
\* in order, and the progress bar shows the last progress signal of it;
\* when Completed is next to be handled the log holds every OutputLine of
\* the run, and handling it leaves the log as it is.
C16_HandledInEmissionOrder ==
    Running =>
      /\ Len(queue) <= Len(Emitted)
      /\ queue = SubSeq(Emitted, Len(Emitted) - Len(queue) + 1, Len(Emitted))
      /\ output_text = Texts(Handled)
      /\ progress_bar = BarAfter(Handled)
      /\ (queue # <<>> /\ Head(queue).k = "finished")
           => output_text = Texts(hist)
\* Completed is next to be handled in the second run, after two items:
\* the log holds the lines of this run and the bar shows 2 of 2.
C16_Witness ==
    /\ Running
    /\ nruns = 2
    /\ queue # <<>>
    /\ Head(queue).k = "finished"
    /\ progress_bar.value = 2
    /\ Len(output_text) >= 8

\* C17: a thread is started, or the window's reference to a thread
\* replaced, only when no started thread is still in run(): not while one
\* is running its commands, and not between its emit of Completed and its
\* return.
C17_Original ==
    [][(nruns' = nruns + 1 \/ proc'.path = "thread_destroyed")
         => LiveThreads = {}]_vars

\* C18 as stated: the window's thread is never inside a subprocess call.
C18_Original == fg = "loop"

\* C18: the window's thread waits on a child process in show_packages and
\* nowhere else, and it can be there only while no run is pending, with no
\* signal waiting and no dialog open; while a run is pending the window's
\* thread is in its event loop, the commands of the run being the steps
\* of its thread.
C18_BlocksOnlyInShowPackages ==
    /\ fg \in {"loop", "show_packages"}
    /\ fg = "show_packages" => (~Running /\ queue = <<>> /\ dialogs = <<>>)
    /\ Running => fg = "loop"
    /\ \A j \in Idx(hist, "list") \cup Idx(hist, "uninstall") :
         threads[hist[j].run].pc # "none"
\* The window's thread is inside the pip list of show_packages, after a run.
C18_Witness ==
    /\ fg = "show_packages"
    /\ nruns >= 1
    /\ Idx(hist, "list") # {}

\* C19: as long as the window is there, its three controls are all enabled
\* or all disabled, and the progress bar is visible exactly when they are
\* disabled, which is exactly while a run is pending, from start_uninstall
\* to the handling of that run's Completed event; with no run pending the
\* controls are enabled and the bar is hidden.
C19_ControlsAndBarTogether ==
    proc.window =>
      /\ buttons \in {AllButtons(TRUE), AllButtons(FALSE)}
      /\ progress_bar.visible <=> buttons = AllButtons(FALSE)
      /\ progress_bar.visible <=> Running
\* A run that showed 2 of 2 has been handled: the controls are enabled
\* again and the bar is hidden.
C19_Witness ==
    /\ proc.window
    /\ nruns >= 1
    /\ ~Running
    /\ buttons = AllButtons(TRUE)
    /\ ~progress_bar.visible
    /\ progress_bar.value = 2

====
